---- MODULE Spec2Model ----
(***************************************************************************)
(* Model of services/geminiService.ts: analyzePlantImage, the module-level *)
(* credential it closes over, and the remote generateContent call it       *)
(* awaits.  Strings that the code inspects character by character (the     *)
(* image argument, the response text) are sequences of one-character       *)
(* strings; strings the code only passes around are TLA+ strings.          *)
(***************************************************************************)
EXTENDS Integers, Sequences, FiniteSets, TLC

(* ------------------------------------------------------------------ *)
(* Bounds                                                             *)
(* ------------------------------------------------------------------ *)

\* number of invocations that may be in flight together
NumCalls == 2

Procs == 1..NumCalls

(* ------------------------------------------------------------------ *)
(* Caller-visible error messages                                      *)
(* ------------------------------------------------------------------ *)

ConfigError == "API Key is missing. Please set your API_KEY in the Vercel environment variables."

AnalysisError == "Failed to analyze image. Please check if your API key is valid and has billing enabled."

NoResponseError == "No response from AI"

SyntaxError == "SyntaxError"

RemoteError == "RemoteError"

(* ------------------------------------------------------------------ *)
(* Character strings                                                  *)
(* ------------------------------------------------------------------ *)

\* does literal lit occur in s starting at index i
StartsWithAt(s, lit, i) ==
    /\ i + Len(lit) - 1 <= Len(s)
    /\ SubSeq(s, i, i + Len(lit) - 1) = lit

DataImage == <<"d","a","t","a",":","i","m","a","g","e","/">>

Base64Tail == <<";","b","a","s","e","6","4",",">>

\* the alternation (png|jpg|jpeg), tried left to right
ImageKinds == << <<"p","n","g">>, <<"j","p","g">>, <<"j","p","e","g">> >>

\* length of the match of /^data:image\/(png|jpg|jpeg);base64,/ on s, 0 if none
PrefixMatchLen(s) ==
    IF ~StartsWithAt(s, DataImage, 1) THEN 0
    ELSE LET at == Len(DataImage) + 1
             fits(k) == /\ StartsWithAt(s, ImageKinds[k], at)
                        /\ StartsWithAt(s, Base64Tail, at + Len(ImageKinds[k]))
             hits == {k \in DOMAIN ImageKinds : fits(k)}
         IN  IF hits = {} THEN 0
             ELSE LET k == CHOOSE h \in hits : \A g \in hits : h <= g
                  IN  Len(DataImage) + Len(ImageKinds[k]) + Len(Base64Tail)

\* a plausible slip: the alternation forgets "jpg"
CleanBase64_noJpg(base64Image) ==
    IF StartsWithAt(base64Image, DataImage \o ImageKinds[2] \o Base64Tail, 1)
    THEN base64Image
    ELSE SubSeq(base64Image, PrefixMatchLen(base64Image) + 1, Len(base64Image))

\* base64Image.replace(/^data:image\/(png|jpg|jpeg);base64,/, "")
CleanBase64(base64Image) ==
    SubSeq(base64Image, PrefixMatchLen(base64Image) + 1, Len(base64Image))

(* ------------------------------------------------------------------ *)
(* JSON values                                                        *)
(*   t: kind; n, e: a number n * 10^(-e), or a boolean in n;          *)
(*   s: characters of a string; a: elements of an array;              *)
(*   o: members of an object, [k, v] in insertion order               *)
(* ------------------------------------------------------------------ *)

JNull == [t |-> "null", n |-> 0, e |-> 0, s |-> <<>>, a |-> <<>>, o |-> <<>>]

JBool(b) == [t |-> "boolean", n |-> IF b THEN 1 ELSE 0, e |-> 0, s |-> <<>>, a |-> <<>>, o |-> <<>>]

JStr(s) == [t |-> "string", n |-> 0, e |-> 0, s |-> s, a |-> <<>>, o |-> <<>>]

JArr(a) == [t |-> "array", n |-> 0, e |-> 0, s |-> <<>>, a |-> a, o |-> <<>>]

JObj(o) == [t |-> "object", n |-> 0, e |-> 0, s |-> <<>>, a |-> <<>>, o |-> o]

RECURSIVE Pow10(_)
Pow10(k) == IF k = 0 THEN 1 ELSE 10 * Pow10(k - 1)

\* a number is kept in lowest terms: no trailing zero in the fraction
RECURSIVE Normalise(_, _)
Normalise(n, e) ==
    IF e > 0 /\ n % 10 = 0 THEN Normalise(n \div 10, e - 1) ELSE [n |-> n, e |-> e]

\* the number m * 10^(-scale)
JNum(m, scale) ==
    LET r == IF scale < 0 THEN [n |-> m * Pow10(0 - scale), e |-> 0] ELSE Normalise(m, scale)
    IN  [t |-> "number", n |-> r.n, e |-> r.e, s |-> <<>>, a |-> <<>>, o |-> <<>>]

HasKey(v, k) == v.t = "object" /\ \E i \in DOMAIN v.o : v.o[i].k = k

Get(v, k) == v.o[CHOOSE i \in DOMAIN v.o : v.o[i].k = k].v

\* obj[k] = v: a repeated key keeps its place and takes the later value
SetMember(o, k, v) ==
    IF \E i \in DOMAIN o : o[i].k = k
    THEN [i \in DOMAIN o |-> IF o[i].k = k THEN [k |-> k, v |-> v] ELSE o[i]]
    ELSE Append(o, [k |-> k, v |-> v])

(* ------------------------------------------------------------------ *)
(* JSON.parse                                                         *)
(* ------------------------------------------------------------------ *)

Whitespace == {" ", "\t", "\n", "\r"}

Digits == {"0", "1", "2", "3", "4", "5", "6", "7", "8", "9"}

DigitVal(c) ==
    CASE c = "0" -> 0 [] c = "1" -> 1 [] c = "2" -> 2 [] c = "3" -> 3 [] c = "4" -> 4
      [] c = "5" -> 5 [] c = "6" -> 6 [] c = "7" -> 7 [] c = "8" -> 8 [] c = "9" -> 9

\* escapes of a string literal (\uXXXX is outside the modelled alphabet)
Unescape(c) ==
    CASE c = "\"" -> "\"" [] c = "\\" -> "\\" [] c = "/" -> "/"
      [] c = "n" -> "\n" [] c = "t" -> "\t" [] c = "r" -> "\r"

Escapable == {"\"", "\\", "/", "n", "t", "r"}

ParseFail == [ok |-> FALSE, val |-> JNull, pos |-> 0]

ParseOk(v, p) == [ok |-> TRUE, val |-> v, pos |-> p]

RECURSIVE SkipWs(_, _)
SkipWs(s, i) ==
    IF i <= Len(s) /\ s[i] \in Whitespace THEN SkipWs(s, i + 1) ELSE i

\* the characters of a string literal, from just after its opening quote
RECURSIVE ScanString(_, _, _)
ScanString(s, i, acc) ==
    IF i > Len(s) THEN ParseFail
    ELSE IF s[i] = "\"" THEN ParseOk(JStr(acc), i + 1)
    ELSE IF s[i] = "\\"
         THEN IF i + 1 <= Len(s) /\ s[i + 1] \in Escapable
              THEN ScanString(s, i + 2, Append(acc, Unescape(s[i + 1])))
              ELSE ParseFail
    ELSE IF s[i] \in {"\t", "\n", "\r"} THEN ParseFail
    ELSE ScanString(s, i + 1, Append(acc, s[i]))

\* a run of digits from i: [val, cnt, pos]
RECURSIVE ScanDigits(_, _, _, _)
ScanDigits(s, i, val, cnt) ==
    IF i <= Len(s) /\ s[i] \in Digits
    THEN ScanDigits(s, i + 1, 10 * val + DigitVal(s[i]), cnt + 1)
    ELSE [val |-> val, cnt |-> cnt, pos |-> i]

\* -? (0 | [1-9][0-9]*) (. [0-9]+)? ([eE] [+-]? [0-9]+)?
ParseNumber(s, i) ==
    LET neg  == s[i] = "-"
        i1   == IF neg THEN i + 1 ELSE i
        int  == ScanDigits(s, i1, 0, 0)
        lead == int.cnt > 1 /\ s[i1] = "0"
        dot  == int.pos <= Len(s) /\ s[int.pos] = "."
        frac == IF dot THEN ScanDigits(s, int.pos + 1, int.val, 0)
                ELSE [val |-> int.val, cnt |-> 0, pos |-> int.pos]
        hasE == frac.pos <= Len(s) /\ s[frac.pos] \in {"e", "E"}
        sgn  == frac.pos + 1 <= Len(s) /\ s[frac.pos + 1] \in {"+", "-"}
        eNeg == sgn /\ s[frac.pos + 1] = "-"
        ex   == IF hasE THEN ScanDigits(s, frac.pos + (IF sgn THEN 2 ELSE 1), 0, 0)
                ELSE [val |-> 0, cnt |-> 1, pos |-> frac.pos]
        mant == IF neg THEN 0 - frac.val ELSE frac.val
        scl  == frac.cnt - (IF eNeg THEN 0 - ex.val ELSE ex.val)
    IN  IF int.cnt = 0 \/ lead \/ (dot /\ frac.cnt = 0) \/ ex.cnt = 0
        THEN ParseFail
        ELSE ParseOk(JNum(mant, scl), ex.pos)

LitTrue == <<"t","r","u","e">>

LitFalse == <<"f","a","l","s","e">>

LitNull == <<"n","u","l","l">>

RECURSIVE ParseValue(_, _)
RECURSIVE ParseElements(_, _, _)
RECURSIVE ParseMembers(_, _, _)

\* elements of an array, from the first character of an element
ParseElements(s, i, acc) ==
    LET r == ParseValue(s, i)
        j == SkipWs(s, r.pos)
    IN  IF ~r.ok \/ j > Len(s) THEN ParseFail
        ELSE IF s[j] = "," THEN ParseElements(s, j + 1, Append(acc, r.val))
        ELSE IF s[j] = "]" THEN ParseOk(JArr(Append(acc, r.val)), j + 1)
        ELSE ParseFail

\* members of an object, from where a key is expected
ParseMembers(s, i, acc) ==
    LET k0 == SkipWs(s, i)
        key == IF k0 <= Len(s) /\ s[k0] = "\"" THEN ScanString(s, k0 + 1, <<>>) ELSE ParseFail
        c == SkipWs(s, key.pos)
        r == IF key.ok /\ c <= Len(s) /\ s[c] = ":" THEN ParseValue(s, c + 1) ELSE ParseFail
        j == SkipWs(s, r.pos)
    IN  IF ~r.ok \/ j > Len(s) THEN ParseFail
        ELSE IF s[j] = "," THEN ParseMembers(s, j + 1, SetMember(acc, key.val.s, r.val))
        ELSE IF s[j] = "}" THEN ParseOk(JObj(SetMember(acc, key.val.s, r.val)), j + 1)
        ELSE ParseFail

\* one value, leading whitespace allowed
ParseValue(s, i0) ==
    LET i == SkipWs(s, i0)
    IN  IF i > Len(s) THEN ParseFail
        ELSE IF s[i] = "{"
             THEN LET j == SkipWs(s, i + 1)
                  IN  IF j <= Len(s) /\ s[j] = "}" THEN ParseOk(JObj(<<>>), j + 1)
                      ELSE ParseMembers(s, j, <<>>)
        ELSE IF s[i] = "["
             THEN LET j == SkipWs(s, i + 1)
                  IN  IF j <= Len(s) /\ s[j] = "]" THEN ParseOk(JArr(<<>>), j + 1)
                      ELSE ParseElements(s, j, <<>>)
        ELSE IF s[i] = "\"" THEN ScanString(s, i + 1, <<>>)
        ELSE IF s[i] = "-" \/ s[i] \in Digits THEN ParseNumber(s, i)
        ELSE IF StartsWithAt(s, LitTrue, i) THEN ParseOk(JBool(TRUE), i + Len(LitTrue))
        ELSE IF StartsWithAt(s, LitFalse, i) THEN ParseOk(JBool(FALSE), i + Len(LitFalse))
        ELSE IF StartsWithAt(s, LitNull, i) THEN ParseOk(JNull, i + Len(LitNull))
        ELSE ParseFail

\* JSON.parse(text): [ok, val]; ~ok is the thrown SyntaxError
JSONParse(text) ==
    LET r == ParseValue(text, 1)
    IN  IF r.ok /\ SkipWs(text, r.pos) = Len(text) + 1
        THEN [ok |-> TRUE, val |-> r.val]
        ELSE [ok |-> FALSE, val |-> JNull]

(* ------------------------------------------------------------------ *)
(* The declared responseSchema                                        *)
(* ------------------------------------------------------------------ *)

K_plant_name == <<"p","l","a","n","t","_","n","a","m","e">>

K_status == <<"s","t","a","t","u","s">>

K_disease_name == <<"d","i","s","e","a","s","e","_","n","a","m","e">>

K_confidence == <<"c","o","n","f","i","d","e","n","c","e">>

K_treatment_advice == <<"t","r","e","a","t","m","e","n","t","_","a","d","v","i","c","e">>

K_prevention_tips == <<"p","r","e","v","e","n","t","i","o","n","_","t","i","p","s">>

K_watering_advice == <<"w","a","t","e","r","i","n","g","_","a","d","v","i","c","e">>

Healthy == <<"H","e","a","l","t","h","y">>

Diseased == <<"D","i","s","e","a","s","e","d">>

Uncertain == <<"U","n","c","e","r","t","a","i","n">>

\* enum: ["Healthy", "Diseased", "Uncertain"]
StatusEnum == {Healthy, Diseased, Uncertain}

\* properties of type Type.STRING
StringProps == {K_plant_name, K_status, K_disease_name, K_treatment_advice, K_watering_advice}

\* required: [...]
RequiredProps ==
    {K_plant_name, K_status, K_treatment_advice, K_confidence, K_prevention_tips, K_watering_advice}

\* does the value v honour the declared responseSchema
Conforms(v) ==
    /\ v.t = "object"
    /\ \A k \in RequiredProps : HasKey(v, k)
    /\ \A k \in StringProps : HasKey(v, k) => Get(v, k).t = "string"
    /\ HasKey(v, K_confidence) => Get(v, K_confidence).t = "number"
    /\ HasKey(v, K_prevention_tips) =>
          /\ Get(v, K_prevention_tips).t = "array"
          /\ \A i \in DOMAIN Get(v, K_prevention_tips).a : Get(v, K_prevention_tips).a[i].t = "string"
    /\ HasKey(v, K_status) => Get(v, K_status).s \in StatusEnum

(* ------------------------------------------------------------------ *)
(* The remote service's encoder: the JSON text of a value             *)
(* (responseMimeType: "application/json")                             *)
(* ------------------------------------------------------------------ *)

DigitChar(d) ==
    CASE d = 0 -> "0" [] d = 1 -> "1" [] d = 2 -> "2" [] d = 3 -> "3" [] d = 4 -> "4"
      [] d = 5 -> "5" [] d = 6 -> "6" [] d = 7 -> "7" [] d = 8 -> "8" [] d = 9 -> "9"

\* exactly w decimal digits of the natural n (w = 0: as many as needed, at least one)
RECURSIVE NatChars(_, _)
NatChars(n, w) ==
    IF w = 1 \/ (w = 0 /\ n < 10) THEN <<DigitChar(n % 10)>>
    ELSE Append(NatChars(n \div 10, IF w = 0 THEN 0 ELSE w - 1), DigitChar(n % 10))

NumChars(n, e) ==
    LET m == IF n < 0 THEN 0 - n ELSE n
        sign == IF n < 0 THEN <<"-">> ELSE <<>>
    IN  IF e = 0 THEN sign \o NatChars(m, 0)
        ELSE sign \o NatChars(m \div Pow10(e), 0) \o <<".">> \o NatChars(m % Pow10(e), e)

RECURSIVE QuoteChars(_)
QuoteChars(s) ==
    IF s = <<>> THEN <<>>
    ELSE (IF Head(s) \in {"\"", "\\"} THEN <<"\\", Head(s)>> ELSE <<Head(s)>>) \o QuoteChars(Tail(s))

Quote(s) == <<"\"">> \o QuoteChars(s) \o <<"\"">>

RECURSIVE Stringify(_, _)
RECURSIVE JoinElements(_, _, _)
RECURSIVE JoinMembers(_, _, _)

JoinElements(a, i, sp) ==
    IF i > Len(a) THEN <<>>
    ELSE (IF i > 1 THEN <<",">> \o sp ELSE <<>>) \o Stringify(a[i], sp) \o JoinElements(a, i + 1, sp)

JoinMembers(o, i, sp) ==
    IF i > Len(o) THEN <<>>
    ELSE (IF i > 1 THEN <<",">> \o sp ELSE <<>>)
         \o Quote(o[i].k) \o <<":">> \o sp \o Stringify(o[i].v, sp) \o JoinMembers(o, i + 1, sp)

\* the text of v, with sp after every ':' and ','
Stringify(v, sp) ==
    CASE v.t = "null" -> LitNull
      [] v.t = "boolean" -> IF v.n = 1 THEN LitTrue ELSE LitFalse
      [] v.t = "number" -> NumChars(v.n, v.e)
      [] v.t = "string" -> Quote(v.s)
      [] v.t = "array" -> <<"[">> \o JoinElements(v.a, 1, sp) \o <<"]">>
      [] v.t = "object" -> <<"{">> \o JoinMembers(v.o, 1, sp) \o <<"}">>

(* ------------------------------------------------------------------ *)
(* Values the remote service may answer with                          *)
(* ------------------------------------------------------------------ *)

Member(k, v) == [k |-> k, v |-> v]

Tips == JArr(<<JStr(<<"A","i","r">>), JStr(<<"S","u","n">>)>>)

\* a diagnosis with every property of the schema
Diagnosis(status, conf) ==
    JObj(<<Member(K_plant_name, JStr(<<"R","o","s","e">>)),
           Member(K_status, JStr(status)),
           Member(K_disease_name, JStr(<<"R","u","s","t">>)),
           Member(K_confidence, conf),
           Member(K_treatment_advice, JStr(<<"C","u","t">>)),
           Member(K_prevention_tips, Tips),
           Member(K_watering_advice, JStr(<<"D","r","y">>))>>)

\* the same without the optional disease_name, confidence first
DiagnosisNoDisease(status, conf) ==
    JObj(<<Member(K_confidence, conf),
           Member(K_plant_name, JStr(<<"R","o","s","e">>)),
           Member(K_status, JStr(status)),
           Member(K_treatment_advice, JStr(<<"\"","C","u","t","\"">>)),
           Member(K_prevention_tips, JArr(<<>>)),
           Member(K_watering_advice, JStr(<<>>))>>)

\* drop the member with key k
Without(v, k) == JObj(SelectSeq(v.o, LAMBDA m : m.k # k))

\* values that honour the schema, confidence within 0..100
InRangeValues ==
    {Diagnosis(Diseased, JNum(100, 0)),
     Diagnosis(Uncertain, JNum(995, 1)),
     DiagnosisNoDisease(Healthy, JNum(0, 0))}

\* values that honour the schema, whose confidence is any number
OutOfRangeValues ==
    {Diagnosis(Diseased, JNum(150, 0)),
     DiagnosisNoDisease(Healthy, JNum(0 - 5, 0))}

SchemaValues == InRangeValues \cup OutOfRangeValues

\* JSON values that are not the declared structure
OtherValues ==
    {Without(Diagnosis(Diseased, JNum(80, 0)), K_watering_advice),
     Diagnosis(<<"S","e","v","e","r","e">>, JNum(80, 0)),
     Diagnosis(Healthy, JStr(<<"h","i","g","h">>)),
     JNum(42, 0),
     JNull,
     JArr(<<>>),
     JObj(<<>>)}

\* text that is not JSON: cut short, prose, blank, a trailing comma
MalformedTexts ==
    {LET t == Stringify(Diagnosis(Healthy, JNum(50, 0)), <<>>) IN SubSeq(t, 1, Len(t) - 1),
     <<"S","o","r","r","y">>,
     <<" ">>,
     <<"[","1",",","]">>,
     <<"0","1">>}

(* ------------------------------------------------------------------ *)
(* Inputs                                                             *)
(* ------------------------------------------------------------------ *)

\* process.env.API_KEY: absent, or a string
EnvAbsent == [defined |-> FALSE, v |-> ""]

EnvOf(s) == [defined |-> TRUE, v |-> s]

EnvValues == {EnvAbsent, EnvOf(""), EnvOf("key-1")}

ConcEnvValues == {EnvAbsent, EnvOf("key-1")}

Payload == <<"Q","U","J","D">>

PngPrefix == DataImage \o ImageKinds[1] \o Base64Tail

JpgPrefix == DataImage \o ImageKinds[2] \o Base64Tail

JpegPrefix == DataImage \o ImageKinds[3] \o Base64Tail

\* the prefixes the specification calls recognized
RecognizedPrefixes == {PngPrefix, JpgPrefix, JpegPrefix}

Images ==
    {PngPrefix \o Payload, JpgPrefix \o Payload, JpegPrefix \o Payload,
     Payload, <<>>, PngPrefix,
     DataImage \o <<"g","i","f">> \o Base64Tail \o Payload,
     DataImage \o <<"P","N","G">> \o Base64Tail \o Payload,
     DataImage \o <<"j","p","e">> \o Base64Tail \o Payload,
     PngPrefix \o JpegPrefix \o Payload,
     Payload \o PngPrefix \o Payload}

ConcImages == {JpgPrefix \o Payload}

Languages == {"English", "Hindi"}

ConcLanguages == {"Hindi"}

\* symptoms?: string
NoSymptoms == [defined |-> FALSE, v |-> ""]

Symptoms == {NoSymptoms, [defined |-> TRUE, v |-> ""], [defined |-> TRUE, v |-> "brown spots"]}

ConcSymptoms == {NoSymptoms}

\* response.text: undefined, null or a string
TextUndefined == [k |-> "undefined", s |-> <<>>]

TextNull == [k |-> "null", s |-> <<>>]

TextOf(s) == [k |-> "string", s |-> s]

Threw == [threw |-> TRUE, text |-> TextUndefined]

Returned(text) == [threw |-> FALSE, text |-> text]

\* the texts the encoder gives for the values above, compact and spaced
SchemaTexts == {Stringify(v, sp) : v \in SchemaValues, sp \in {<<>>, <<" ">>}}

OtherTexts == {Stringify(v, <<>>) : v \in OtherValues}

\* how the awaited generateContent may settle
Responses ==
    {Threw, Returned(TextUndefined), Returned(TextNull), Returned(TextOf(<<>>))}
      \cup {Returned(TextOf(t)) : t \in SchemaTexts \cup OtherTexts \cup MalformedTexts}

ConcResponses ==
    {Threw, Returned(TextOf(<<>>)), Returned(TextOf(<<"S","o","r","r","y">>)),
     Returned(TextOf(Stringify(Diagnosis(Diseased, JNum(100, 0)), <<>>)))}

(* ------------------------------------------------------------------ *)
(* State                                                              *)
(* ------------------------------------------------------------------ *)

VARIABLES
    env,        \* process.env.API_KEY
    apiKey,     \* the module constant apiKey
    pc,         \* each invocation: "idle", "awaiting", "settled", "done"
    args,       \* each invocation's arguments
    client,     \* each invocation's GoogleGenAI instance
    request,    \* each invocation's generateContent request
    calls,      \* outbound generateContent calls issued by each invocation
    response,   \* how each invocation's awaited call settled
    result,     \* how each invocation's promise settled
    console,    \* the console.error log
    envAtLoad,  \* history: process.env.API_KEY when the module was loaded
    envAtCall   \* history: process.env.API_KEY when each invocation was made

vars == <<env, apiKey, pc, args, client, request, calls, response, result, console,
          envAtLoad, envAtCall>>

NoArgs == [image |-> <<>>, language |-> "", symptoms |-> NoSymptoms]

NoClient == [made |-> FALSE, apiKey |-> ""]

NoRequest ==
    [sent |-> FALSE, model |-> "", mimeType |-> "", data |-> <<>>,
     prompt |-> [language |-> "", symptoms |-> ""], systemInstruction |-> [language |-> ""]]

Pending == [kind |-> "pending", err |-> "", val |-> JNull]

Resolved(v) == [kind |-> "record", err |-> "", val |-> v]

Rejected(msg) == [kind |-> "error", err |-> msg, val |-> JNull]

(* ------------------------------------------------------------------ *)
(* analyzePlantImage                                                  *)
(* ------------------------------------------------------------------ *)

\* process.env.API_KEY || ''
LoadApiKey(e) == IF e.defined /\ e.v # "" THEN e.v ELSE ""

\* a plausible slip: a comparison with undefined, which apiKey never is
MissingKey_strictUndefined(k) == FALSE

\* !apiKey
MissingKey(k) == k = ""

\* a plausible slip: the credential is read again when the client is built
ClientKey_readEnv(k, e) == LoadApiKey(e)

\* new GoogleGenAI({ apiKey })
ClientKey(k, e) == k

\* the interpolations of the prompt and of the system instruction
BuildRequest(image, language, symptoms) ==
    [sent |-> TRUE,
     model |-> "gemini-2.5-flash",
     mimeType |-> "image/jpeg",
     data |-> CleanBase64(image),
     prompt |-> [language |-> language,
                 symptoms |-> IF symptoms.defined /\ symptoms.v # "" THEN symptoms.v ELSE ""],
     systemInstruction |-> [language |-> language]]

\* !text
Falsy(text) == text.k \in {"undefined", "null"} \/ text.s = <<>>

\* a plausible slip: the optional disease_name is lost in decoding
Decode_dropOptional(chars) ==
    LET d == JSONParse(chars)
    IN  IF d.ok /\ d.val.t = "object" THEN [ok |-> TRUE, val |-> Without(d.val, K_disease_name)] ELSE d

\* JSON.parse(text) as DiseaseAnalysisResult
Decode(chars) == JSONParse(chars)

Return(v) == [threw |-> FALSE, err |-> "", val |-> v]

Throw(msg) == [threw |-> TRUE, err |-> msg, val |-> JNull]

\* the body of the try block once the awaited call has settled
TryBody(resp) ==
    IF resp.threw THEN Throw(RemoteError)
    ELSE IF Falsy(resp.text) THEN Throw(NoResponseError)
    ELSE LET d == Decode(resp.text.s)
         IN  IF d.ok THEN Return(d.val) ELSE Throw(SyntaxError)

\* a plausible slip: the caught error is thrown on as it is
Catch_rethrow(o) == o

\* catch (error) { console.error(...); throw new Error("Failed to analyze image...") }
Catch(o) == IF o.threw THEN Throw(AnalysisError) ELSE o

\* a plausible slip: JSON.parse is called after the try statement
Outcome_parseOutsideTry(resp) ==
    IF ~resp.threw /\ ~Falsy(resp.text) /\ ~Decode(resp.text.s).ok
    THEN Throw(SyntaxError)
    ELSE Catch(TryBody(resp))

\* a plausible slip: the await is placed before the try statement
Outcome_awaitOutsideTry(resp) ==
    IF resp.threw THEN Throw(RemoteError) ELSE Catch(TryBody(resp))

\* try { ... } catch (error) { ... }
Outcome(resp) == Catch(TryBody(resp))

\* what the catch block logs, if it runs
Logged(resp) == IF TryBody(resp).threw THEN <<TryBody(resp).err>> ELSE <<>>

\* the call of analyzePlantImage up to its await
Invoke(p, image, language, symptoms) ==
    /\ pc[p] = "idle"
    /\ args' = [args EXCEPT ![p] = [image |-> image, language |-> language, symptoms |-> symptoms]]
    /\ envAtCall' = [envAtCall EXCEPT ![p] = env]
    /\ IF MissingKey(apiKey)
       THEN /\ result' = [result EXCEPT ![p] = Rejected(ConfigError)]
            /\ pc' = [pc EXCEPT ![p] = "done"]
            /\ UNCHANGED <<client, request, calls>>
       ELSE /\ client' = [client EXCEPT ![p] = [made |-> TRUE, apiKey |-> ClientKey(apiKey, env)]]
            /\ request' = [request EXCEPT ![p] = BuildRequest(image, language, symptoms)]
            /\ calls' = [calls EXCEPT ![p] = calls[p] + 1]
            /\ pc' = [pc EXCEPT ![p] = "awaiting"]
            /\ UNCHANGED result
    /\ UNCHANGED <<env, apiKey, response, console, envAtLoad>>

\* the remote service settles the awaited generateContent call
Settle(p, r) ==
    /\ pc[p] = "awaiting"
    /\ response' = [response EXCEPT ![p] = r]
    /\ pc' = [pc EXCEPT ![p] = "settled"]
    /\ UNCHANGED <<env, apiKey, args, client, request, calls, result, console, envAtLoad, envAtCall>>

\* a plausible slip: a failed analysis issues the call once more
Resume_retry(p) ==
    /\ pc[p] = "settled"
    /\ IF TryBody(response[p]).threw /\ calls[p] < 2
       THEN /\ calls' = [calls EXCEPT ![p] = calls[p] + 1]
            /\ pc' = [pc EXCEPT ![p] = "awaiting"]
            /\ UNCHANGED result
       ELSE /\ result' = [result EXCEPT ![p] =
                  IF Outcome(response[p]).threw THEN Rejected(Outcome(response[p]).err)
                  ELSE Resolved(Outcome(response[p]).val)]
            /\ pc' = [pc EXCEPT ![p] = "done"]
            /\ UNCHANGED calls
    /\ console' = console \o Logged(response[p])
    /\ UNCHANGED <<env, apiKey, args, client, request, response, envAtLoad, envAtCall>>

\* the rest of analyzePlantImage after the await
Resume(p) ==
    /\ pc[p] = "settled"
    /\ result' = [result EXCEPT ![p] =
          IF Outcome(response[p]).threw THEN Rejected(Outcome(response[p]).err)
          ELSE Resolved(Outcome(response[p]).val)]
    /\ console' = console \o Logged(response[p])
    /\ pc' = [pc EXCEPT ![p] = "done"]
    /\ UNCHANGED <<env, apiKey, args, client, request, calls, response, envAtLoad, envAtCall>>

\* the environment variable changes while the module stays loaded
SetEnv(e) ==
    /\ e # env
    /\ env' = e
    /\ UNCHANGED <<apiKey, pc, args, client, request, calls, response, result, console,
                   envAtLoad, envAtCall>>

\* the state once the module has been loaded with environment e
Loaded(e) ==
    /\ env = e
    /\ apiKey = LoadApiKey(e)
    /\ envAtLoad = e
    /\ pc = [p \in Procs |-> "idle"]
    /\ args = [p \in Procs |-> NoArgs]
    /\ client = [p \in Procs |-> NoClient]
    /\ request = [p \in Procs |-> NoRequest]
    /\ calls = [p \in Procs |-> 0]
    /\ response = [p \in Procs |-> Returned(TextUndefined)]
    /\ result = [p \in Procs |-> Pending]
    /\ console = <<>>
    /\ envAtCall = [p \in Procs |-> EnvAbsent]

(* one invocation, over every argument and every way the call may settle *)

Init == \E e \in EnvValues : Loaded(e)

DoInvoke == \E image \in Images, language \in Languages, symptoms \in Symptoms :
                Invoke(1, image, language, symptoms)

DoSettle == \E r \in Responses : Settle(1, r)

DoResume == Resume(1)

DoSetEnv == \E e \in EnvValues : SetEnv(e)

Next == DoInvoke \/ DoSettle \/ DoResume \/ DoSetEnv

Spec == Init /\ [][Next]_vars

(* NumCalls invocations in flight together *)

InitConc == \E e \in ConcEnvValues : Loaded(e)

ConcInvoke == \E p \in Procs, image \in ConcImages, language \in ConcLanguages,
                 symptoms \in ConcSymptoms : Invoke(p, image, language, symptoms)

ConcSettle == \E p \in Procs, r \in ConcResponses : Settle(p, r)

ConcResume == \E p \in Procs : Resume(p)

ConcSetEnv == \E e \in ConcEnvValues : SetEnv(e)

NextConc == ConcInvoke \/ ConcSettle \/ ConcResume \/ ConcSetEnv

SpecConc == InitConc /\ [][NextConc]_vars

(* ------------------------------------------------------------------ *)
(* Properties                                                         *)
(* ------------------------------------------------------------------ *)

Made(p) == pc[p] # "idle"

Done(p) == pc[p] = "done"

\* the invocation got past the credential check and its call has come back
Came(p) == Done(p) /\ client[p].made

\* C1: an invocation made while the credential is empty fails with the
\* configuration error and issues no generateContent call, whatever its
\* image, language and symptoms.
C1_MissingKeyFailsBeforeNetwork ==
    \A p \in Procs :
        (apiKey = "" /\ Made(p)) =>
            /\ Done(p)
            /\ result[p] = Rejected(ConfigError)
            /\ calls[p] = 0
            /\ ~request[p].sent
            /\ ~client[p].made

C1_Witness ==
    \E p \in Procs :
        /\ apiKey = ""
        /\ Done(p)
        /\ args[p].image = PngPrefix \o Payload
        /\ args[p].language = "Hindi"
        /\ args[p].symptoms.v = "brown spots"

SchemaEncodings == {[v |-> v, text |-> Stringify(v, sp)] : v \in SchemaValues, sp \in {<<>>, <<" ">>}}

\* C3: when the call returns the JSON text of a value that honours the
\* schema, the invocation returns a record equal to that value, field by
\* field, and the record's status is Healthy, Diseased or Uncertain.
C3_RecordEqualsResponse ==
    \A p \in Procs : \A enc \in SchemaEncodings :
        (Came(p) /\ response[p] = Returned(TextOf(enc.text))) =>
            /\ result[p] = Resolved(enc.v)
            /\ Get(result[p].val, K_status).s \in StatusEnum

C3_Witness ==
    \E p \in Procs :
        /\ Came(p)
        /\ response[p] = Returned(TextOf(Stringify(Diagnosis(Uncertain, JNum(995, 1)), <<" ">>)))
        /\ result[p].kind = "record"
        /\ HasKey(result[p].val, K_disease_name)

\* C4: when the call returns with an empty, undefined or null text, the
\* invocation fails with the analysis error and returns no record.
C4_EmptyTextFails ==
    \A p \in Procs :
        (Came(p) /\ response[p] \in {Returned(TextUndefined), Returned(TextNull), Returned(TextOf(<<>>))}) =>
            result[p] = Rejected(AnalysisError)

C4_Witness ==
    \E p \in Procs : Came(p) /\ response[p] = Returned(TextNull) /\ result[p].kind = "error"

\* C5: when the call returns non-empty text that is not JSON, the invocation
\* fails with the analysis error, never with the decoder's own exception.
C5_MalformedTextFails ==
    \A p \in Procs :
        (Came(p) /\ ~response[p].threw /\ response[p].text.k = "string"
                 /\ response[p].text.s \in MalformedTexts) =>
            result[p] = Rejected(AnalysisError)

C5_Witness ==
    \E p \in Procs :
        /\ Came(p)
        /\ response[p] = Returned(TextOf(<<"[","1",",","]">>))
        /\ result[p].kind = "error"
        /\ console = <<SyntaxError>>

\* C6: when the returned text is JSON but not the declared structure, the
\* invocation fails with the analysis error instead of returning a record.
C6_WrongStructureFails ==
    \A p \in Procs :
        (Came(p) /\ ~response[p].threw /\ response[p].text.k = "string"
                 /\ JSONParse(response[p].text.s).ok
                 /\ ~Conforms(JSONParse(response[p].text.s).val)) =>
            result[p] = Rejected(AnalysisError)

\* C7: a failed invocation fails with the configuration error or with the
\* analysis error and nothing else, and two invocations that got past the
\* credential check and failed carry the same error whatever made them fail.
C7_UniformErrors ==
    /\ \A p \in Procs :
           (Done(p) /\ result[p].kind = "error") => result[p].err \in {ConfigError, AnalysisError}
    /\ \A p, q \in Procs :
           (Came(p) /\ Came(q) /\ result[p].kind = "error" /\ result[q].kind = "error") =>
               result[p] = result[q]

C7_Witness ==
    \E p, q \in Procs :
        /\ Came(p) /\ Came(q)
        /\ response[p] = Threw
        /\ response[q] = Returned(TextOf(<<"S","o","r","r","y">>))
        /\ result[p].kind = "error" /\ result[q].kind = "error"

\* C8 as stated: every invocation works with the credential that is in the
\* process environment at the moment the invocation is made.
C8_CredentialReadAtCallTime ==
    \A p \in Procs :
        Made(p) =>
            IF envAtCall[p].defined /\ envAtCall[p].v # ""
            THEN client[p].made /\ client[p].apiKey = envAtCall[p].v
            ELSE ~client[p].made /\ result[p] = Rejected(ConfigError)

\* C8, amended: invocations in flight together are independent (each has its
\* own client and request, and equal arguments and equal responses give equal
\* requests and outcomes), and every invocation works with the credential
\* that was in the process environment when the module was loaded.
C8_CredentialReadAtLoadTime ==
    /\ \A p \in Procs :
           Made(p) =>
               IF envAtLoad.defined /\ envAtLoad.v # ""
               THEN client[p].made /\ client[p].apiKey = envAtLoad.v
               ELSE ~client[p].made /\ result[p] = Rejected(ConfigError)
    /\ \A p, q \in Procs :
           (Done(p) /\ Done(q) /\ args[p] = args[q] /\ response[p] = response[q]) =>
               (request[p] = request[q] /\ result[p] = result[q])

C8_Witness ==
    \E p, q \in Procs :
        /\ p # q
        /\ Came(p) /\ Came(q)
        /\ envAtCall[p] # envAtCall[q]
        /\ envAtCall[p] # envAtLoad
        /\ result[p].kind = "record" /\ result[q].kind = "error"

\* 0 <= n * 10^(-e) <= 100
InRange(v) == v.t = "number" /\ 0 <= v.n /\ v.n <= 100 * Pow10(v.e)

\* C9: a record returned for a response that honours the declared schema
\* has a confidence between 0 and 100.
C9_ConfidenceInRange ==
    \A p \in Procs :
        (Came(p) /\ result[p].kind = "record" /\ Conforms(result[p].val)) =>
            InRange(Get(result[p].val, K_confidence))

\* C10: an invocation that got past the credential check issues exactly one
\* generateContent call, never a second one after a failure, and ends in one
\* outcome: a record or the analysis error.
C10_OneCallOneOutcome ==
    \A p \in Procs :
        /\ calls[p] = (IF client[p].made THEN 1 ELSE 0)
        /\ pc[p] \in {"awaiting", "settled"} => (client[p].made /\ result[p] = Pending)
        /\ Came(p) =>
              \/ result[p].kind = "record"
              \/ result[p] = Rejected(AnalysisError)

C10_Witness ==
    \E p \in Procs :
        /\ Came(p)
        /\ response[p] = Threw
        /\ calls[p] = 1
        /\ result[p] = Rejected(AnalysisError)

====
